---- MODULE Spec2Model ----
(***************************************************************************)
(* LocalPM (lpm): local dependency discovery and reuse, followed by the    *)
(* fallback to an external package manager.                                *)
(*                                                                         *)
(* The model follows the semver variant of the program (the script that    *)
(* follows the README in src/unnamed/part_000); the discovery of the older *)
(* variant, src/src/index.js, is modelled in a section of its own.  Text   *)
(* is modelled as a                                                        *)
(* sequence of tokens: a package name is one token ("a", "b"), every other *)
(* token is one character ("@", "^", "~", ".", a digit).  Paths are        *)
(* sequences of path segments.  JavaScript's undefined and the empty       *)
(* string are both the empty sequence: the program only tests them for     *)
(* truthiness.                                                             *)
(***************************************************************************)
EXTENDS Integers, Sequences, FiniteSets, TLC

\* ------------------------------------------------------------------ bounds

\* Number of manifests of the crawl that declare something (every other
\* crawled manifest is a filler: it declares no requested name).
NumManifests == 2

\* Number of runs of the program against the same working directory.
MaxRuns == 2

\* Number of signals delivered during one run.
MaxSignals == 1

\* ------------------------------------------------------- program constants

batchSize == 50

\* ------------------------------------------------------------ text helpers

Digits == {"0", "1", "2", "3", "4", "5", "6", "7", "8", "9"}

DigitVal(c) ==
  CASE c = "0" -> 0 [] c = "1" -> 1 [] c = "2" -> 2 [] c = "3" -> 3
    [] c = "4" -> 4 [] c = "5" -> 5 [] c = "6" -> 6 [] c = "7" -> 7
    [] c = "8" -> 8 [] OTHER -> 9

\* String.prototype.split(sep): the segments between the separators.
RECURSIVE Split(_, _)
Split(s, sep) ==
  IF \A i \in 1..Len(s) : s[i] # sep
  THEN <<s>>
  ELSE LET i == CHOOSE j \in 1..Len(s) :
                  s[j] = sep /\ \A h \in 1..(j - 1) : s[h] # sep
       IN  <<SubSeq(s, 1, i - 1)>> \o Split(SubSeq(s, i + 1, Len(s)), sep)

\* A name segment as the string it spells: a name is one token, the empty
\* segment is the empty string.
Word(seg) == IF Len(seg) = 1 THEN seg[1] ELSE ""

\* const [name, version] = dep.split('@')
ParseSpec(dep) ==
  LET parts == Split(dep, "@")
  IN  <<Word(parts[1]), IF Len(parts) >= 2 THEN parts[2] ELSE <<>>>>

\* `${name}@${version}`
Ident(name, version) == <<name, "@">> \o version

IsMarker(c) == c \in {"^", "~"}

\* version.replace(/[\^~]/, ''): the first range marker, wherever it is, is
\* removed (the expression is not global and not anchored).
StripMarker(v) ==
  IF \A i \in 1..Len(v) : ~IsMarker(v[i])
  THEN v
  ELSE LET i == CHOOSE j \in 1..Len(v) :
                  IsMarker(v[j]) /\ \A h \in 1..(j - 1) : ~IsMarker(v[h])
       IN  SubSeq(v, 1, i - 1) \o SubSeq(v, i + 1, Len(v))

\* version.startsWith('^') || version.startsWith('~')
StartsWithMarker(v) == Len(v) >= 1 /\ IsMarker(v[1])

\* ----------------------------------------------------------------- semver

\* A strict semantic version MAJOR.MINOR.PATCH (components of one digit).
SemverValid(v) ==
  /\ Len(v) = 5
  /\ v[1] \in Digits /\ v[3] \in Digits /\ v[5] \in Digits
  /\ v[2] = "." /\ v[4] = "."

\* The leading "=" and "v" characters semver.clean drops before parsing.
RECURSIVE DropPrefix(_)
DropPrefix(v) ==
  IF Len(v) >= 1 /\ v[1] \in {"=", "v"} THEN DropPrefix(Tail(v)) ELSE v

\* semver.clean(v) || v
CleanOrSelf(v) == IF SemverValid(DropPrefix(v)) THEN DropPrefix(v) ELSE v

\* semver.compare throws a TypeError on a string that is no version.
CompareThrows(x, y) == ~SemverValid(x) \/ ~SemverValid(y)

Sign(n) == IF n < 0 THEN -1 ELSE IF n > 0 THEN 1 ELSE 0

\* semver.compare(x, y) of two valid versions: -1, 0 or 1.
SemverCompare(x, y) ==
  IF x[1] # y[1] THEN Sign(DigitVal(x[1]) - DigitVal(y[1]))
  ELSE IF x[3] # y[3] THEN Sign(DigitVal(x[3]) - DigitVal(y[3]))
  ELSE Sign(DigitVal(x[5]) - DigitVal(y[5]))

\* The comparator handed to sort.
CompareCandidates(p, q) ==
  SemverCompare(CleanOrSelf(p.version), CleanOrSelf(q.version))

\* An insertion that puts an element before the elements equal to it.
RECURSIVE InsertBeforeEqual(_, _)
InsertBeforeEqual(sorted, x) ==
  IF sorted = <<>> THEN <<x>>
  ELSE IF CompareCandidates(sorted[Len(sorted)], x) < 0
       THEN Append(sorted, x)
       ELSE Append(InsertBeforeEqual(SubSeq(sorted, 1, Len(sorted) - 1), x),
                   sorted[Len(sorted)])

\* Array.prototype.sort with that comparator: a stable ascending sort.
RECURSIVE InsertSorted(_, _)
InsertSorted(sorted, x) ==
  IF sorted = <<>> THEN <<x>>
  ELSE IF CompareCandidates(sorted[Len(sorted)], x) <= 0
       THEN Append(sorted, x)
       ELSE Append(InsertSorted(SubSeq(sorted, 1, Len(sorted) - 1), x),
                   sorted[Len(sorted)])

RECURSIVE SortVersions(_)
SortVersions(vs) ==
  IF vs = <<>> THEN <<>>
  ELSE InsertSorted(SortVersions(SubSeq(vs, 1, Len(vs) - 1)), vs[Len(vs)])

\* The sort throws when a comparison does.
SortThrows(vs) ==
  /\ Len(vs) >= 2
  /\ \E i \in 1..Len(vs) : ~SemverValid(CleanOrSelf(vs[i].version))

\* ------------------------------------------------------------ ordered maps
\* A JavaScript object or Map: a sequence of <<key, value>> pairs in
\* insertion order, keys unique.

Has(m, k) == \E i \in 1..Len(m) : m[i][1] = k

Get(m, k) ==
  IF Has(m, k) THEN m[CHOOSE i \in 1..Len(m) : m[i][1] = k][2] ELSE <<>>

Put(m, k, v) ==
  IF Has(m, k)
  THEN [i \in 1..Len(m) |-> IF m[i][1] = k THEN <<k, v>> ELSE m[i]]
  ELSE Append(m, <<k, v>>)

Keys(m) == {m[i][1] : i \in 1..Len(m)}

\* A merge in which a key that is already present keeps its value.
RECURSIVE SpreadKeepFirst(_, _)
SpreadKeepFirst(x, y) ==
  IF y = <<>> THEN x
  ELSE SpreadKeepFirst(IF Has(x, y[1][1]) THEN x
                       ELSE Append(x, y[1]), Tail(y))

\* { ...x, ...y }: the entries of y are written over those of x.
RECURSIVE Spread(_, _)
Spread(x, y) ==
  IF y = <<>> THEN x ELSE Spread(Put(x, y[1][1], y[1][2]), Tail(y))

\* new Map(pairs)
RECURSIVE MapOf(_)
MapOf(pairs) ==
  IF pairs = <<>> THEN <<>>
  ELSE LET last == pairs[Len(pairs)]
           rest == MapOf(SubSeq(pairs, 1, Len(pairs) - 1))
       IN  Put(rest, last[1], last[2])

RECURSIVE Flat(_)
Flat(ss) == IF ss = <<>> THEN <<>> ELSE Head(ss) \o Flat(Tail(ss))

\* ------------------------------------------------------------------ paths

Drives == {"C:", "D:"}

RECURSIVE CommonPrefix(_, _)
CommonPrefix(x, y) ==
  IF x # <<>> /\ y # <<>> /\ Head(x) = Head(y)
  THEN 1 + CommonPrefix(Tail(x), Tail(y))
  ELSE 0

\* path.relative(from, to): one ".." for every segment of `from` below the
\* common ancestor, then the rest of `to`; across drives, `to` itself.
Relative(from, to) ==
  IF from # <<>> /\ to # <<>> /\ from[1] # to[1]
     /\ from[1] \in Drives /\ to[1] \in Drives
  THEN to
  ELSE LET c == CommonPrefix(from, to)
       IN  [i \in 1..(Len(from) - c) |-> ".."] \o SubSeq(to, c + 1, Len(to))

\* relativePath.startsWith('..')
StartsWithDotDot(rel) == rel # <<>> /\ rel[1] \in {"..", "..x"}

\* path.isAbsolute(relativePath)
IsAbsolute(rel) == rel # <<>> /\ rel[1] \in Drives

\* Whether `pre` is a prefix of the path p.
IsPrefix(pre, p) == Len(pre) <= Len(p) /\ SubSeq(p, 1, Len(pre)) = pre

\* The segment names that start with a dot.
Hidden(seg) == seg \in {".git", ".cache"}

\* A path with only its nested node_modules excluded.
IgnoredNestedOnly(p) ==
  \E i, j \in 1..(Len(p) - 1) :
    i < j /\ p[i] = "node_modules" /\ p[j] = "node_modules"

\* glob's ignore list, matched on the path of a file: '**/X/**' excludes a
\* file with a directory X anywhere above it.
Ignored(p) ==
  \/ \E i, j \in 1..(Len(p) - 1) :
       i < j /\ p[i] = "node_modules" /\ p[j] = "node_modules"
  \/ \E i \in 1..(Len(p) - 1) :
       \/ Hidden(p[i])
       \/ p[i] \in {"tmp", "dist", "build", "coverage", "test"}

\* packageJsonPath.match(/node_modules.*node_modules/)
NestedNodeModules(p) ==
  Cardinality({i \in 1..Len(p) : p[i] = "node_modules"}) >= 2

\* ------------------------------------------------------------------ state

VARIABLES
  \* the invocation and the file system outside the working directory
  argv,              \* positional arguments: the requested identifiers
  packageManager,    \* --package-manager
  cwd,               \* process.cwd(): the working directory
  rootDir,           \* the root of the scan: customRootDir, or <<>> for '/'
  manifests,         \* the manifests on disk that declare something
  copyFails,         \* source directories whose copy fails
  writeFails,        \* whether the local manifest cannot be written
  \* the working directory
  pkgDisk,           \* ./package.json on disk
  nmDir,             \* whether ./node_modules exists
  nm,                \* ./node_modules/<name>: <<>> or where it came from
  \* the main flow
  pc,                \* the await the main flow is suspended at
  depsToSearch,      \* main's depsToSearch: the requested identifiers
  \* getDependencyPaths
  localPackageJson,
  dependencySpecs,   \* Map name -> version
  fi,                \* index of the filter loop over dependencySpecs
  toSearch,          \* the function's own depsToSearch: <<name, version>>
  batchStart,        \* i of the batch loop
  task,              \* per manifest: the state of its task in the batch
  seenDeps,          \* Map name -> [{version, path}]
  results,
  \* copyDependenciesToLocal
  packageJson,       \* the local manifest object
  di,                \* index of the loop over the resolved dependencies
  \* the fallback subprocess and the signal handlers
  packageManagerProcess,  \* 0 (null) or the pid of the spawned subprocess
  child,             \* "none", "running", "killed", "closed"
  killsStarted,      \* handlers waiting for tree-kill's callback
  killsSent,         \* of those, the ones whose SIGKILL has been sent
  exited,
  exitCode,
  \* history
  run,               \* number of the current run
  signals,           \* signals delivered in this run
  spawnLog,          \* every spawn of the package manager
  fsLog,             \* every call that writes in the working directory
  decided,           \* per examined (manifest, spec): accepted or not
  sigLive,           \* a signal found a subprocess handle
  killDone,          \* a tree-kill callback has fired
  closeCode,         \* how the subprocess of this run ended
  atStart            \* the working directory as the current run found it

envVars == <<argv, packageManager, cwd, rootDir, manifests, copyFails,
             writeFails>>
diskVars == <<pkgDisk, nmDir, nm>>
gdpVars == <<localPackageJson, dependencySpecs, fi, toSearch, batchStart,
             task, seenDeps, results>>
instVars == <<packageJson, di>>
procVars == <<packageManagerProcess, child, killsStarted, killsSent>>
exitVars == <<exited, exitCode>>
sigVars == <<signals, sigLive, killDone>>
histVars == <<run, spawnLog, fsLog, decided, closeCode, atStart>>

vars == <<envVars, diskVars, pc, depsToSearch, gdpVars, instVars, procVars,
          exitVars, sigVars, histVars>>

\* ----------------------------------------------------------------- inputs

Names == {"a", "b"}

V100 == <<"1", ".", "0", ".", "0">>
V200 == <<"2", ".", "0", ".", "0">>
Caret(v) == <<"^">> \o v

\* The directory of the i-th manifest.
ManifestDirs == << <<"p1">>, <<"p2">>, <<"p3">>, <<"p4">> >>

\* Positions of the manifests in the list of crawled paths: the first and
\* the last place of the first batch and the first place of the second.
PosSet == {0, batchSize - 1, batchSize}

PosArrangements ==
  {ps \in [1..NumManifests -> PosSet] :
     \A i, j \in 1..NumManifests : i < j => ps[i] < ps[j]}

\* What one manifest says about one name: nothing, or a version, with the
\* sibling node_modules/<name> present or not.
Declares(name, versions) ==
  {[deps |-> <<>>, installed |-> {}]}
    \cup {[deps |-> << <<name, v>> >>, installed |-> s] :
            v \in versions, s \in {{}, {name}}}

ManifestKinds(versionsA, versionsB) ==
  {[readable |-> TRUE, dependencies |-> x.deps \o y.deps,
    devDependencies |-> <<>>, peerDependencies |-> <<>>,
    installed |-> x.installed \cup y.installed] :
      x \in Declares("a", versionsA), y \in Declares("b", versionsB)}

Unreadable ==
  [readable |-> FALSE, dependencies |-> <<>>, devDependencies |-> <<>>,
   peerDependencies |-> <<>>, installed |-> {}]

MakeManifest(kind, pos, dir) ==
  [pos |-> pos, dir |-> dir, readable |-> kind.readable,
   dependencies |-> kind.dependencies,
   devDependencies |-> kind.devDependencies,
   peerDependencies |-> kind.peerDependencies,
   installed |-> kind.installed]

RequestLists(ids) ==
  {<<x>> : x \in ids} \cup {p \in ids \X ids : p[1] # p[2]}

\* The working directory: no manifest; or a manifest that records the names
\* of `recorded`, with the directories of `present` under node_modules.
NoPackageJson == [exists |-> FALSE, hasDeps |-> FALSE, dependencies |-> <<>>]

LocalState(recorded, present) ==
  [pkg |-> [exists |-> TRUE, hasDeps |-> TRUE,
            dependencies |-> IF "a" \in recorded
                             THEN << <<"a", V100>> >> ELSE <<>>],
   nmDir |-> present # {},
   nm |-> [n \in Names |-> IF n \in present THEN <<"old">> ELSE <<>>]]

EmptyDir ==
  [pkg |-> NoPackageJson, nmDir |-> FALSE, nm |-> [n \in Names |-> <<>>]]

\* warned: the task has printed a warning (console.log of the read failure).
IdleTask == [st |-> "idle", k |-> 0, matches |-> <<>>, warned |-> FALSE]

\* Everything but the root, the manifests on disk and the place of the main
\* flow.
InitIdle(requests, locals, managers, failing, writeFailing) ==
  /\ argv \in requests
  /\ packageManager \in managers
  /\ copyFails \in failing
  /\ writeFails \in writeFailing
  /\ \E l \in locals :
       /\ pkgDisk = l.pkg /\ nmDir = l.nmDir /\ nm = l.nm
       /\ atStart = [pkg |-> l.pkg, nm |-> l.nm]
  /\ depsToSearch = <<>>
  /\ localPackageJson = NoPackageJson
  /\ dependencySpecs = <<>>
  /\ fi = 0
  /\ toSearch = <<>>
  /\ batchStart = 0
  /\ task = [m \in 1..NumManifests |-> IdleTask]
  /\ seenDeps = <<>>
  /\ results = <<>>
  /\ packageJson = NoPackageJson
  /\ di = 0
  /\ packageManagerProcess = 0
  /\ child = "none"
  /\ killsStarted = 0
  /\ killsSent = 0
  /\ exited = FALSE
  /\ exitCode = 0
  /\ run = 1
  /\ signals = 0
  /\ spawnLog = <<>>
  /\ fsLog = {}
  /\ decided = {}
  /\ closeCode = "none"
  /\ sigLive = FALSE
  /\ killDone = FALSE

\* The program is about to start.
InitRest(requests, locals, managers, failing, writeFailing) ==
  /\ pc = "start"
  /\ InitIdle(requests, locals, managers, failing, writeFailing)

\* The scan starts at '/', and the manifests are those of the projects p1,
\* p2, ...
InitWith(requests, kinds, locals, managers, failing, writeFailing) ==
  /\ cwd = <<"w">>
  /\ rootDir = <<>>
  /\ \E ks \in [1..NumManifests -> kinds], ps \in PosArrangements :
       manifests = [i \in 1..NumManifests |->
                      MakeManifest(ks[i], ps[i], ManifestDirs[i])]
  /\ InitRest(requests, locals, managers, failing, writeFailing)

\* ------------------------------------------------- the fallback subprocess

Exit(code) == exited' = TRUE /\ exitCode' = code

\* installCommands[packageManager]
InstallCommand(pm) == IF pm = "npm" THEN "install" ELSE "add"

\* packageManagerProcess = spawn(packageManager, [...verb, ...pkgs], ...)
Spawn(by, pkgs) ==
  /\ packageManagerProcess' = Len(spawnLog) + 1
  /\ child' = "running"
  /\ spawnLog' = Append(spawnLog,
                        [by |-> by, run |-> run, command |-> packageManager,
                         verb |-> InstallCommand(packageManager),
                         pkgs |-> pkgs])

\* A filter that compares the whole identifier with the resolved names.
RECURSIVE MissingDepsByIdentifier(_, _)
MissingDepsByIdentifier(all, found) ==
  IF all = <<>> THEN <<>>
  ELSE (IF Len(Head(all)) = 1 /\ Head(all)[1] \in found
        THEN <<>> ELSE <<Head(all)>>)
       \o MissingDepsByIdentifier(Tail(all), found)

\* allDependencies.filter(d => !foundDeps.has(d.split('@')[0]))
RECURSIVE MissingDeps(_, _)
MissingDeps(all, found) ==
  IF all = <<>> THEN <<>>
  ELSE (IF Word(Split(Head(all), "@")[1]) \in found
        THEN <<>> ELSE <<Head(all)>>) \o MissingDeps(Tail(all), found)

\* ------------------------------------------------------------ the main flow

\* const results = await getDependencyPaths(...) in the main flow, and what
\* follows it up to the next await: with no result the package manager is
\* spawned, otherwise copyDependenciesToLocal is called and suspends at
\* ensureDir.
ReturnToMain(res) ==
  /\ results' = res
  /\ IF res = <<>>
     THEN /\ pc' = "fallbackMain"
          /\ Spawn("main", depsToSearch)
     ELSE /\ pc' = "ensureDir"
          /\ UNCHANGED <<packageManagerProcess, child, spawnLog>>

\* getDependencyPaths up to its first await: the roots (one root on a
\* single-rooted platform) and the parsed specs.
SpecsOf(ids) == MapOf([i \in 1..Len(ids) |-> ParseSpec(ids[i])])

\* The main flow up to its first await.
MainStart ==
  /\ pc = "start" /\ ~exited
  /\ IF argv = <<>>
     THEN /\ pc' = "readOwn"
          /\ UNCHANGED <<depsToSearch, dependencySpecs>>
     ELSE /\ pc' = "readLocal"
          /\ depsToSearch' = argv
          /\ dependencySpecs' = SpecsOf(argv)
  /\ UNCHANGED <<envVars, diskVars, localPackageJson, fi, toSearch,
                 batchStart, task, seenDeps, results, instVars, procVars,
                 exitVars, sigVars, histVars>>

\* A mapping that requests every entry with its version.
OwnRequestsPinned(deps) ==
  [i \in 1..Len(deps) |-> Ident(deps[i][1], deps[i][2])]

\* Object.entries(dependencies).map(...)
OwnRequests(deps) ==
  [i \in 1..Len(deps) |->
     IF StartsWithMarker(deps[i][2])
     THEN <<deps[i][1]>>
     ELSE Ident(deps[i][1], deps[i][2])]

\* No positional argument: the requests are read from the local manifest.
ReadOwnManifest ==
  /\ pc = "readOwn" /\ ~exited
  /\ IF ~pkgDisk.exists
     THEN /\ Exit(1)
          /\ UNCHANGED <<pc, depsToSearch, dependencySpecs>>
     ELSE LET ids == OwnRequests(pkgDisk.dependencies)
          IN  IF ids = <<>>
              THEN /\ Exit(0)
                   /\ UNCHANGED <<pc, depsToSearch, dependencySpecs>>
              ELSE /\ pc' = "readLocal"
                   /\ depsToSearch' = ids
                   /\ dependencySpecs' = SpecsOf(ids)
                   /\ UNCHANGED exitVars
  /\ UNCHANGED <<envVars, diskVars, localPackageJson, fi, toSearch,
                 batchStart, task, seenDeps, results, instVars, procVars,
                 sigVars, histVars>>

\* ------------------------------------------------------ getDependencyPaths

DefaultPackageJson == [exists |-> TRUE, hasDeps |-> TRUE, dependencies |-> <<>>]

\* fs.readJson of the local manifest, { dependencies: {} } when it fails.
ReadOrDefault == IF pkgDisk.exists THEN pkgDisk ELSE DefaultPackageJson

\* The local manifest is read; the filter loop suspends at its first
\* pathExists.
ReadLocalManifest ==
  /\ pc = "readLocal" /\ ~exited
  /\ localPackageJson' = ReadOrDefault
  /\ fi' = 1
  /\ pc' = "filter"
  /\ UNCHANGED <<envVars, diskVars, depsToSearch, dependencySpecs, toSearch,
                 batchStart, task, seenDeps, results, instVars, procVars,
                 exitVars, sigVars, histVars>>

LocalModuleExists(name) == name \in Names /\ nm[name] # <<>>

\* !localVersion || !localModuleExists
NeedsSearch(entry) ==
  \/ Get(localPackageJson.dependencies, entry[1]) = <<>>
  \/ ~LocalModuleExists(entry[1])

\* One round of the filter loop; after the last one, either every request
\* is satisfied locally and the function returns [], or the scan starts.
FilterStep ==
  /\ pc = "filter" /\ ~exited
  /\ LET entry == dependencySpecs[fi]
         kept == IF NeedsSearch(entry) THEN Append(toSearch, entry)
                 ELSE toSearch
     IN  /\ toSearch' = kept
         /\ IF fi < Len(dependencySpecs)
            THEN /\ fi' = fi + 1
                 /\ UNCHANGED <<pc, results, packageManagerProcess, child,
                                spawnLog>>
            ELSE /\ UNCHANGED fi
                 /\ IF kept = <<>>
                    THEN ReturnToMain(<<>>)
                    ELSE /\ pc' = "scan"
                         /\ UNCHANGED <<results, packageManagerProcess,
                                        child, spawnLog>>
  /\ UNCHANGED <<envVars, diskVars, depsToSearch, localPackageJson,
                 dependencySpecs, batchStart, task, seenDeps, instVars,
                 killsStarted, killsSent, exitVars, sigVars, run, fsLog,
                 decided, closeCode, atStart>>

\* packageJsonPaths.length: the list ends with the last manifest that
\* declares something.
\* findPackageJsonInDirectory(rootDir): the manifests below the root that
\* the ignore list does not exclude.
Crawled(m) ==
  /\ IsPrefix(rootDir, manifests[m].dir)
  /\ ~Ignored(manifests[m].dir \o <<"package.json">>)

PathsLen ==
  LET ms == {m \in 1..NumManifests : Crawled(m)}
  IN  IF ms = {} THEN 0
      ELSE manifests[CHOOSE m \in ms : \A h \in ms : h <= m].pos + 1

\* A slice that runs from i to the end of the list.
InRestOfList(m, i) == Crawled(m) /\ manifests[m].pos >= i

\* packageJsonPaths.slice(i, i + batchSize)
InBatch(m, i) ==
  /\ Crawled(m)
  /\ manifests[m].pos >= i /\ manifests[m].pos < i + batchSize

\* batch.map(async ...): every task of the batch runs up to its first
\* await, the read of its manifest; a path with nested node_modules
\* returns at once.
BatchTasks(i) ==
  [m \in 1..NumManifests |->
     IF InBatch(m, i)
     THEN IF NestedNodeModules(manifests[m].dir \o <<"package.json">>)
          THEN [st |-> "done", k |-> 0, matches |-> <<>>, warned |-> FALSE]
          ELSE [st |-> "read", k |-> 0, matches |-> <<>>, warned |-> FALSE]
     ELSE task[m]]

\* The scan of the roots has completed: the first batch starts.
ScanDone ==
  /\ pc = "scan" /\ ~exited
  /\ pc' = "batch"
  /\ batchStart' = 0
  /\ task' = BatchTasks(0)
  /\ UNCHANGED <<envVars, diskVars, depsToSearch, localPackageJson,
                 dependencySpecs, fi, toSearch, seenDeps, results, instVars,
                 procVars, exitVars, sigVars, histVars>>

\* { ...dependencies, ...devDependencies, ...peerDependencies }
Dependencies(mf) ==
  Spread(Spread(mf.dependencies, mf.devDependencies), mf.peerDependencies)

\* foundVersion && hasOwnProperty(dependencies, depName)
\*   && (!depVersion || foundVersion === depVersion)
VersionMatchesStripped(foundVersion, depVersion) ==
  depVersion = <<>> \/ StripMarker(foundVersion) = depVersion

VersionMatches(foundVersion, depVersion) ==
  depVersion = <<>> \/ foundVersion = depVersion

Matches(deps, spec) ==
  /\ Get(deps, spec[1]) # <<>>
  /\ Has(deps, spec[1])
  /\ VersionMatches(Get(deps, spec[1]), spec[2])

\* The next round of the loop over depsToSearch, from round `from` on, that
\* reaches fs.access; 0 when the loop ends first.
NextMatch(deps, from) ==
  LET ks == {k \in from..Len(toSearch) : Matches(deps, toSearch[k])}
  IN  IF ks = {} THEN 0 ELSE CHOOSE k \in ks : \A h \in ks : k <= h

Finished(matches) ==
  [st |-> "done", k |-> 0, matches |-> matches, warned |-> FALSE]

\* The catch of the read: the warning is printed and the task returns [].
Warned == [st |-> "done", k |-> 0, matches |-> <<>>, warned |-> TRUE]

Rejected(m, from, to) ==
  {[m |-> m, name |-> toSearch[k][1], accepted |-> FALSE] : k \in from..to}

\* The loop of task m runs on from round `from` to its next await or to
\* its end.
Continue(m, deps, from, matches, sofar) ==
  LET k == NextMatch(deps, from)
  IN  IF k = 0
      THEN /\ task' = [task EXCEPT ![m] = Finished(matches)]
           /\ decided' = sofar \cup Rejected(m, from, Len(toSearch))
      ELSE /\ task' = [task EXCEPT ![m] =
                         [st |-> "access", k |-> k, matches |-> matches,
                          warned |-> FALSE]]
           /\ decided' = sofar \cup Rejected(m, from, k - 1)

\* The read of manifest m has completed.
TaskRead(m) ==
  /\ pc = "batch" /\ ~exited
  /\ task[m].st = "read"
  /\ IF ~manifests[m].readable
     THEN /\ task' = [task EXCEPT ![m] = Warned]
          /\ UNCHANGED decided
     ELSE Continue(m, Dependencies(manifests[m]), 1, <<>>, decided)
  /\ UNCHANGED <<envVars, diskVars, pc, depsToSearch, localPackageJson,
                 dependencySpecs, fi, toSearch, batchStart, seenDeps, results,
                 instVars, procVars, exitVars, sigVars, run, spawnLog, fsLog,
                 closeCode, atStart>>

\* path.join(path.dirname(packageJsonPath), 'node_modules', depName)
NodeModulesPath(mf, name) == mf.dir \o <<"node_modules", name>>

\* seenDeps.get(depName).push({version, path}), the list created first
SeenPush(name, foundVersion, path) ==
  Put(seenDeps, name,
      Append(Get(seenDeps, name),
             [version |-> StripMarker(foundVersion), path |-> path]))

AccessAlwaysOk(mf, name) == TRUE

\* await fs.access(nodeModulesPath) resolves iff the directory exists; its
\* rejection is caught by `catch (err) { continue; }`, which prints nothing.
AccessOk(mf, name) == name \in mf.installed

\* fs.access of the candidate directory of task m has completed.
TaskAccess(m) ==
  /\ pc = "batch" /\ ~exited
  /\ task[m].st = "access"
  /\ LET mf == manifests[m]
         deps == Dependencies(mf)
         k == task[m].k
         name == toSearch[k][1]
         depVersion == toSearch[k][2]
         foundVersion == Get(deps, name)
         path == NodeModulesPath(mf, name)
         yes == {[m |-> m, name |-> name, accepted |-> TRUE]}
         no == {[m |-> m, name |-> name, accepted |-> FALSE]}
     IN  IF AccessOk(mf, name)
         THEN IF depVersion = <<>>
              THEN /\ seenDeps' = SeenPush(name, foundVersion, path)
                   /\ Continue(m, deps, k + 1, task[m].matches,
                               decided \cup yes)
              ELSE /\ task' = [task EXCEPT ![m] =
                                 Finished(Append(task[m].matches,
                                                 [dependency |-> name,
                                                  path |-> path,
                                                  version |-> foundVersion]))]
                   /\ decided' = decided \cup yes
                   /\ UNCHANGED seenDeps
         ELSE /\ Continue(m, deps, k + 1, task[m].matches, decided \cup no)
              /\ UNCHANGED seenDeps
  /\ UNCHANGED <<envVars, diskVars, pc, depsToSearch, localPackageJson,
                 dependencySpecs, fi, toSearch, batchStart, results,
                 instVars, procVars, exitVars, sigVars, run, spawnLog, fsLog,
                 closeCode, atStart>>

\* batchResults.flat(): the matches of the tasks, in the order of the paths.
FlatResults(i) ==
  Flat([m \in 1..NumManifests |->
          IF InBatch(m, i) THEN task[m].matches ELSE <<>>])

\* sorted[sorted.length - 1]
Latest(versions) == SortVersions(versions)[Len(versions)]

\* One result per name of seenDeps: its latest version.
Picks ==
  [j \in 1..Len(seenDeps) |->
     [dependency |-> seenDeps[j][1],
      path |-> Latest(seenDeps[j][2]).path,
      version |-> Latest(seenDeps[j][2]).version]]

\* Whether the loop goes on to another batch after the one at i.
MoreBatches(i) == i + batchSize < PathsLen

\* Every task of the batch has completed (Promise.all): the results of the
\* batch are put together; the first batch with a result ends the loop.
\* An exception of the sort leaves the function and the main flow, and the
\* runtime ends the process (with status 1, or 0 on the older runtimes that
\* only warn).
BatchJoin ==
  /\ pc = "batch" /\ ~exited
  /\ \A m \in 1..NumManifests : InBatch(m, batchStart) => task[m].st = "done"
  /\ IF \E j \in 1..Len(seenDeps) : SortThrows(seenDeps[j][2])
     THEN /\ pc' = "crashed"
          /\ exited' = TRUE
          /\ exitCode' \in {0, 1}
          /\ UNCHANGED <<batchStart, task, results, packageManagerProcess,
                         child, spawnLog>>
     ELSE /\ UNCHANGED exitVars
          /\ LET flatResults == FlatResults(batchStart) \o Picks
             IN  IF flatResults # <<>>
                 THEN /\ ReturnToMain(flatResults)
                      /\ UNCHANGED <<batchStart, task>>
                 ELSE IF MoreBatches(batchStart)
                 THEN /\ batchStart' = batchStart + batchSize
                      /\ task' = BatchTasks(batchStart + batchSize)
                      /\ UNCHANGED <<pc, results, packageManagerProcess,
                                     child, spawnLog>>
                 ELSE /\ ReturnToMain(<<>>)
                      /\ UNCHANGED <<batchStart, task>>
  /\ UNCHANGED <<envVars, diskVars, depsToSearch, localPackageJson,
                 dependencySpecs, fi, toSearch, seenDeps, instVars,
                 killsStarted, killsSent, sigVars, run, fsLog, decided,
                 closeCode, atStart>>

\* -------------------------------------------------- copyDependenciesToLocal

Log(op, name) == fsLog' = fsLog \cup {[op |-> op, name |-> name, run |-> run]}

\* await fs.ensureDir(localNodeModules)
EnsureDir ==
  /\ pc = "ensureDir" /\ ~exited
  /\ nmDir' = TRUE
  /\ IF nmDir THEN UNCHANGED fsLog ELSE Log("mkdir", "")
  /\ pc' = "readPackageJson"
  /\ UNCHANGED <<envVars, pkgDisk, nm, depsToSearch, gdpVars, instVars,
                 procVars, exitVars, sigVars, run, spawnLog, decided,
                 closeCode, atStart>>

\* The local manifest is read (an object with an empty dependencies map
\* when it cannot be); the loop suspends at its first pathExists.
ReadPackageJson ==
  /\ pc = "readPackageJson" /\ ~exited
  /\ packageJson' = [ReadOrDefault EXCEPT !.hasDeps = TRUE]
  /\ di' = 1
  /\ pc' = "pathExists"
  /\ UNCHANGED <<envVars, diskVars, depsToSearch, gdpVars, procVars,
                 exitVars, sigVars, histVars>>

\* path.join(process.cwd(), 'node_modules', dep.dependency)
TargetPath(name) == cwd \o <<"node_modules", name>>

\* relativePath.startsWith('..') || path.isAbsolute(relativePath)
SourceOutside(target, source) ==
  \/ StartsWithDotDot(Relative(target, source))
  \/ IsAbsolute(Relative(target, source))

\* packageJson.dependencies[dep.dependency] = dep.version
Record(dep) ==
  [packageJson EXCEPT
     !.dependencies = Put(packageJson.dependencies, dep.dependency, dep.version)]

\* A loop that ends after its first round.
NextDepStops == UNCHANGED di /\ pc' = "writeJson"

\* The end of one round of the loop: the next round suspends at its
\* pathExists, and after the last round the manifest is written.
NextDep ==
  IF di < Len(results)
  THEN di' = di + 1 /\ pc' = "pathExists"
  ELSE UNCHANGED di /\ pc' = "writeJson"

\* depExists && depInPackageJson
AlreadyInstalled(dep) ==
  /\ nm[dep.dependency] # <<>>
  /\ Get(packageJson.dependencies, dep.dependency) # <<>>

\* pathExists of the target has completed: the dependency is skipped, only
\* recorded, refused, or its copy starts with the removal of the target.
PathExists ==
  /\ pc = "pathExists" /\ ~exited
  /\ LET dep == results[di]
     IN  IF AlreadyInstalled(dep)
         THEN NextDep /\ UNCHANGED packageJson
         ELSE IF SourceOutside(TargetPath(dep.dependency), dep.path)
         THEN IF nm[dep.dependency] # <<>>
              THEN NextDep /\ packageJson' = Record(dep)
              ELSE pc' = "remove" /\ UNCHANGED <<di, packageJson>>
         ELSE NextDep /\ UNCHANGED packageJson
  /\ UNCHANGED <<envVars, diskVars, depsToSearch, gdpVars, procVars,
                 exitVars, sigVars, histVars>>

\* await fs.remove(targetPath)
Remove ==
  /\ pc = "remove" /\ ~exited
  /\ nm' = [nm EXCEPT ![results[di].dependency] = <<>>]
  /\ Log("remove", results[di].dependency)
  /\ pc' = "copy"
  /\ UNCHANGED <<envVars, pkgDisk, nmDir, depsToSearch, gdpVars, instVars,
                 procVars, exitVars, sigVars, run, spawnLog, decided,
                 closeCode, atStart>>

\* await fs.copy(dep.path, targetPath): the target becomes a copy of the
\* source and the dependency is recorded; a failing copy (cross-device or
\* any other error) is caught and reported, and may leave a part of the
\* tree behind.  A copy into a subdirectory of the source is refused by
\* fs.copy before anything is written.
Copy ==
  /\ pc = "copy" /\ ~exited
  /\ LET dep == results[di]
     IN  IF IsPrefix(dep.path, TargetPath(dep.dependency))
         THEN UNCHANGED <<nm, packageJson>>
         ELSE IF dep.path \in copyFails
         THEN /\ nm' \in {nm, [nm EXCEPT ![dep.dependency] = <<"partial">>]}
              /\ UNCHANGED packageJson
         ELSE /\ nm' = [nm EXCEPT ![dep.dependency] = dep.path]
              /\ packageJson' = Record(dep)
  /\ Log("copy", results[di].dependency)
  /\ NextDep
  /\ UNCHANGED <<envVars, pkgDisk, nmDir, depsToSearch, gdpVars, procVars,
                 exitVars, sigVars, run, spawnLog, decided, closeCode, atStart>>

\* The names the installer has recorded, instead of those it was given.
FoundDepsRecorded ==
  {results[i].dependency :
     i \in {h \in 1..Len(results) :
              Get(packageJson.dependencies, results[h].dependency) # <<>>}}

\* new Set(dependencies.map(d => d.dependency))
FoundDeps == {results[i].dependency : i \in 1..Len(results)}

\* await fs.writeJson(packageJsonPath, packageJson), then the remainder:
\* the package manager is spawned for it, or the function returns.
WriteJson ==
  /\ pc = "writeJson" /\ ~exited
  /\ IF writeFails
     THEN UNCHANGED pkgDisk
     ELSE pkgDisk' = packageJson
  /\ fsLog' = fsLog \cup {[op |-> "writeJson", name |-> "", run |-> run]}
               \cup (IF writeFails \/ packageJson = pkgDisk THEN {}
                     ELSE {[op |-> "rewritten", name |-> "", run |-> run]})
  /\ IF MissingDeps(depsToSearch, FoundDeps) # <<>>
     THEN /\ pc' = "fallbackRest"
          /\ Spawn("rest", MissingDeps(depsToSearch, FoundDeps))
     ELSE /\ pc' = "ended"
          /\ UNCHANGED <<packageManagerProcess, child, spawnLog>>
  /\ UNCHANGED <<envVars, nmDir, nm, depsToSearch, gdpVars, instVars,
                 killsStarted, killsSent, exitVars, sigVars, run, decided,
                 closeCode, atStart>>

\* ------------------------------------------- the subprocess and the signals

\* What the package manager leaves in the working directory when it
\* succeeds: every package it was given is installed and recorded.
RECURSIVE Installed(_, _)
Installed(disk, pkgs) ==
  IF pkgs = <<>> THEN disk
  ELSE LET spec == ParseSpec(Head(pkgs))
           version == IF spec[2] = <<>> THEN Caret(V200) ELSE spec[2]
           next == [pkg |-> [exists |-> TRUE, hasDeps |-> TRUE,
                             dependencies |->
                               Put(disk.pkg.dependencies, spec[1], version)],
                    nm |-> IF spec[1] \in Names
                           THEN [disk.nm EXCEPT ![spec[1]] = <<"registry">>]
                           ELSE disk.nm]
       IN  Installed(next, Tail(pkgs))

\* A main flow that goes on to the installer when the subprocess succeeds.
MainFallbackContinue(code) ==
  IF code = 0
  THEN /\ pc' = "ensureDir"
       /\ packageManagerProcess' = 0
       /\ UNCHANGED exitVars
  ELSE /\ Exit(1)
       /\ UNCHANGED <<pc, packageManagerProcess>>

\* code === 0 ? resolve() : reject(...), and what the main flow does next:
\* process.exit(0), or the catch block's process.exit(1).
MainFallbackExit(code) ==
  /\ Exit(IF code = 0 THEN 0 ELSE 1)
  /\ UNCHANGED <<pc, packageManagerProcess>>

\* A remainder path without its finally block: the handle is kept.
RestFallbackKeepsHandle(code) ==
  /\ pc' = "ended"
  /\ UNCHANGED <<packageManagerProcess, exitVars>>

\* The remainder's try/catch/finally: the failure is reported, the handle
\* is cleared and copyDependenciesToLocal returns; the main flow ends.
RestFallbackDone(code) ==
  /\ packageManagerProcess' = 0
  /\ pc' = "ended"
  /\ UNCHANGED exitVars

\* The subprocess emits 'close': code 0 or 1 when it ends by itself, null
\* (here -1) when it was killed.
ChildClose(code) ==
  /\ ~exited
  /\ pc \in {"fallbackMain", "fallbackRest"}
  /\ \/ child = "running" /\ code \in {0, 1}
     \/ child = "killed" /\ code = -1
  /\ child' = "closed"
  /\ IF code = 0
     THEN LET after == Installed([pkg |-> pkgDisk, nm |-> nm],
                                 spawnLog[Len(spawnLog)].pkgs)
          IN  pkgDisk' = after.pkg /\ nm' = after.nm /\ nmDir' = TRUE
     ELSE UNCHANGED diskVars
  /\ IF pc = "fallbackMain"
     THEN MainFallbackExit(code)
     ELSE RestFallbackDone(code)
  /\ closeCode' = (IF code = 0 THEN "ok" ELSE IF code = 1 THEN "failed"
                   ELSE "killed")
  /\ UNCHANGED <<envVars, depsToSearch, gdpVars, instVars, killsStarted,
                 killsSent, sigVars, run, spawnLog, fsLog, decided, atStart>>

\* The subprocess emits 'error': it could not be spawned.
ChildError ==
  /\ ~exited
  /\ pc \in {"fallbackMain", "fallbackRest"}
  /\ child = "running"
  /\ child' = "closed"
  /\ IF pc = "fallbackMain"
     THEN MainFallbackExit(1)
     ELSE RestFallbackDone(1)
  /\ closeCode' = "error"
  /\ UNCHANGED <<envVars, diskVars, depsToSearch, gdpVars, instVars,
                 killsStarted, killsSent, sigVars, run, spawnLog, fsLog,
                 decided, atStart>>

\* The main flow has returned and no handler is waiting: the process ends.
ProgramEnd ==
  /\ pc = "ended" /\ ~exited
  /\ killsStarted = 0
  /\ Exit(0)
  /\ UNCHANGED <<envVars, diskVars, pc, depsToSearch, gdpVars, instVars,
                 procVars, sigVars, histVars>>

\* process.on(sig, async () => ...): with a subprocess handle, tree-kill is
\* started and the handler waits for its callback; without one the handler
\* exits at once.
Handler ==
  /\ ~exited
  /\ pc # "start"
  /\ pc = "ended" => killsStarted > 0
  /\ signals < MaxSignals
  /\ signals' = signals + 1
  /\ IF packageManagerProcess # 0
     THEN /\ killsStarted' = killsStarted + 1
          /\ sigLive' = TRUE
          /\ UNCHANGED exitVars
     ELSE /\ Exit(0)
          /\ UNCHANGED <<killsStarted, sigLive>>
  /\ UNCHANGED <<envVars, diskVars, pc, depsToSearch, gdpVars, instVars,
                 packageManagerProcess, child, killsSent, killDone, histVars>>

SigInt == Handler

SigTstp == Handler

\* tree-kill has listed the process tree and sends SIGKILL to it.
TreeKillSend ==
  /\ ~exited
  /\ killsSent < killsStarted
  /\ killsSent' = killsSent + 1
  /\ child' = IF child = "running" THEN "killed" ELSE child
  /\ UNCHANGED <<envVars, diskVars, pc, depsToSearch, gdpVars, instVars,
                 packageManagerProcess, killsStarted, exitVars, sigVars,
                 histVars>>

\* tree-kill's callback: the handler resumes and calls process.exit(0).
TreeKillCallback ==
  /\ ~exited
  /\ killsSent > 0
  /\ killDone' = TRUE
  /\ Exit(0)
  /\ UNCHANGED <<envVars, diskVars, pc, depsToSearch, gdpVars, instVars,
                 procVars, signals, sigLive, histVars>>

\* The program is started again, with the same arguments, in the working
\* directory the last run left.
Rerun ==
  /\ exited
  /\ run < MaxRuns
  /\ run' = run + 1
  /\ atStart' = [pkg |-> pkgDisk, nm |-> nm]
  /\ closeCode' = "none"
  /\ pc' = "start"
  /\ depsToSearch' = <<>>
  /\ localPackageJson' = NoPackageJson
  /\ dependencySpecs' = <<>>
  /\ fi' = 0
  /\ toSearch' = <<>>
  /\ batchStart' = 0
  /\ task' = [m \in 1..NumManifests |-> IdleTask]
  /\ seenDeps' = <<>>
  /\ results' = <<>>
  /\ packageJson' = NoPackageJson
  /\ di' = 0
  /\ packageManagerProcess' = 0
  /\ child' = "none"
  /\ killsStarted' = 0
  /\ killsSent' = 0
  /\ exited' = FALSE
  /\ exitCode' = 0
  /\ signals' = 0
  /\ sigLive' = FALSE
  /\ killDone' = FALSE
  /\ decided' = {}
  /\ UNCHANGED <<envVars, diskVars, spawnLog, fsLog>>

\* ------------------------------- getDependencyPaths of src/src/index.js
\* The older variant of the function: the local check is made inside the
\* loop of each task, seenDeps maps the key name@version to true, each
\* task pushes its matches for constrained and unconstrained specs alike,
\* and every batch is analysed.  It runs on the variables of the function
\* above; its places in pc are its own.

\* The specs are parsed and the local manifest is read.
IndexStart ==
  /\ pc = "indexStart"
  /\ depsToSearch' = argv
  /\ dependencySpecs' = SpecsOf(argv)
  /\ localPackageJson' = ReadOrDefault
  /\ pc' = "indexScan"
  /\ UNCHANGED <<envVars, diskVars, fi, toSearch, batchStart, task, seenDeps,
                 results, instVars, procVars, exitVars, sigVars, histVars>>

\* The scan of the roots has completed: the first batch starts.
IndexScanDone ==
  /\ pc = "indexScan"
  /\ pc' = "indexBatch"
  /\ batchStart' = 0
  /\ task' = BatchTasks(0)
  /\ UNCHANGED <<envVars, diskVars, depsToSearch, localPackageJson,
                 dependencySpecs, fi, toSearch, seenDeps, results, instVars,
                 procVars, exitVars, sigVars, histVars>>

\* The loop of a task goes to the round after round k, where it suspends
\* at fs.pathExists, or ends.
IndexNextRound(k, matches) ==
  IF k < Len(dependencySpecs)
  THEN [st |-> "exists", k |-> k + 1, matches |-> matches, warned |-> FALSE]
  ELSE Finished(matches)

\* The read of manifest m has completed.
IndexTaskRead(m) ==
  /\ pc = "indexBatch"
  /\ task[m].st = "read"
  /\ task' = [task EXCEPT ![m] =
                IF manifests[m].readable THEN IndexNextRound(0, <<>>)
                ELSE Warned]
  /\ UNCHANGED <<envVars, diskVars, pc, depsToSearch, localPackageJson,
                 dependencySpecs, fi, toSearch, batchStart, seenDeps, results,
                 instVars, procVars, exitVars, sigVars, histVars>>

\* `${depName}@${foundVersion}`
DepKey(name, foundVersion) == Ident(name, foundVersion)

\* fs.pathExists of the local module has completed in round k of task m:
\* the round is skipped for a dependency that is installed locally, for a
\* declaration that does not match and for a key seenDeps has; otherwise
\* the task suspends at fs.access.
IndexTaskExists(m) ==
  /\ pc = "indexBatch"
  /\ task[m].st = "exists"
  /\ LET k == task[m].k
         entry == dependencySpecs[k]
         deps == Dependencies(manifests[m])
         localVersion == Get(localPackageJson.dependencies, entry[1])
     IN  task' = [task EXCEPT ![m] =
           IF localVersion # <<>> /\ LocalModuleExists(entry[1])
           THEN IndexNextRound(k, task[m].matches)
           ELSE IF /\ Matches(deps, entry)
                   /\ ~Has(seenDeps, DepKey(entry[1], Get(deps, entry[1])))
           THEN [task[m] EXCEPT !.st = "access"]
           ELSE IndexNextRound(k, task[m].matches)]
  /\ UNCHANGED <<envVars, diskVars, pc, depsToSearch, localPackageJson,
                 dependencySpecs, fi, toSearch, batchStart, seenDeps, results,
                 instVars, procVars, exitVars, sigVars, histVars>>

\* fs.access of the candidate directory has completed in round k of task
\* m: the match is pushed and its key is put into seenDeps, or the round is
\* skipped.
IndexTaskAccess(m) ==
  /\ pc = "indexBatch"
  /\ task[m].st = "access"
  /\ LET k == task[m].k
         name == dependencySpecs[k][1]
         foundVersion == Get(Dependencies(manifests[m]), name)
     IN  IF AccessOk(manifests[m], name)
         THEN /\ task' = [task EXCEPT ![m] =
                   IndexNextRound(k, Append(task[m].matches,
                     [dependency |-> name,
                      path |-> NodeModulesPath(manifests[m], name),
                      version |-> foundVersion]))]
              /\ seenDeps' = Put(seenDeps, DepKey(name, foundVersion), TRUE)
         ELSE /\ task' = [task EXCEPT ![m] =
                   IndexNextRound(k, task[m].matches)]
              /\ UNCHANGED seenDeps
  /\ UNCHANGED <<envVars, diskVars, pc, depsToSearch, localPackageJson,
                 dependencySpecs, fi, toSearch, batchStart, results,
                 instVars, procVars, exitVars, sigVars, histVars>>

\* Every task of the batch has completed: results.push(...batchResults
\* .flat()), and the next batch starts or the function returns.
IndexBatchJoin ==
  /\ pc = "indexBatch"
  /\ \A m \in 1..NumManifests : InBatch(m, batchStart) => task[m].st = "done"
  /\ results' = results \o FlatResults(batchStart)
  /\ IF MoreBatches(batchStart)
     THEN /\ batchStart' = batchStart + batchSize
          /\ task' = BatchTasks(batchStart + batchSize)
          /\ UNCHANGED pc
     ELSE /\ pc' = "indexReturned"
          /\ UNCHANGED <<batchStart, task>>
  /\ UNCHANGED <<envVars, diskVars, depsToSearch, localPackageJson,
                 dependencySpecs, fi, toSearch, seenDeps, instVars, procVars,
                 exitVars, sigVars, histVars>>

\* --------------------------------------------------------- specifications

Ids == {<<"a">>, <<"a", "@">> \o V100, <<"b">>, <<"b", "@">> \o V100}

\* Discovery alone: every request list of one or two identifiers, against
\* manifests that declare "a" in one of three versions or not at all, in an
\* empty working directory or in one where "a" is installed.
\* Of the manifests that declare "b", those with its directory installed.
WithB(kinds) ==
  {k \in kinds : Has(k.dependencies, "b") <=> "b" \in k.installed}

InitDiscovery ==
  InitWith(RequestLists(Ids),
           WithB(ManifestKinds({V100, Caret(V100), V200}, {V100})),
           {EmptyDir, LocalState({"a"}, {"a"})},
           {"npm"}, {{}}, {FALSE})

NextDiscovery ==
  \/ MainStart
  \/ ReadLocalManifest
  \/ FilterStep
  \/ ScanDone
  \/ \E m \in 1..NumManifests : TaskRead(m)
  \/ \E m \in 1..NumManifests : TaskAccess(m)
  \/ BatchJoin

SpecDiscovery == InitDiscovery /\ [][NextDiscovery]_vars

\* Discovery over manifests in ordinary and in excluded places, scanned from
\* '/', from /home or from /tmp: manifests that declare "a", with its
\* directory installed or not.
CrawlDirs ==
  {<<"home", "p1">>, <<"home", "p2">>, <<"tmp", "p3">>,
   <<"home", ".git", "p1">>, <<"home", "test", "p1">>,
   <<"home", "dist", "p1">>, <<"home", "build", "p1">>,
   <<"home", "coverage", "p1">>,
   <<"home", "p1", "node_modules", "x", "node_modules", "y">>}

Roots == {<<>>, <<"home">>, <<"tmp">>}

InitCrawl ==
  /\ cwd = <<"w">>
  /\ rootDir \in Roots
  /\ \E ks \in [1..NumManifests -> ManifestKinds({V100}, {}) \cup {Unreadable}],
        ps \in PosArrangements,
        ds \in [1..NumManifests -> CrawlDirs] :
       /\ \A i, j \in 1..NumManifests : ds[i] = ds[j] => i = j
       /\ \A i \in 1..NumManifests :
            ks[i].readable => Has(ks[i].dependencies, "a")
       /\ manifests = [i \in 1..NumManifests |->
                         MakeManifest(ks[i], ps[i], ds[i])]
  /\ InitRest({<< <<"a">> >>, << <<"a", "@">> \o V100 >>}, {EmptyDir},
              {"npm"}, {{}}, {FALSE})

SpecCrawl == InitCrawl /\ [][NextDiscovery]_vars

\* Discovery over manifests that declare "a" in any of their three groups,
\* with a different version in each.
GroupKinds ==
  {[readable |-> TRUE, dependencies |-> d, devDependencies |-> v,
    peerDependencies |-> q, installed |-> s] :
      d \in {<<>>, << <<"a", V100>> >>},
      v \in {<<>>, << <<"a", V200>> >>},
      q \in {<<>>, << <<"a", Caret(V100)>> >>},
      s \in {{}, {"a"}}}

InitGroups ==
  InitWith({<< <<"a">> >>, << <<"a", "@">> \o V100 >>,
            << <<"a", "@">> \o V200 >>},
           GroupKinds, {EmptyDir}, {"npm"}, {{}}, {FALSE})

SpecGroups == InitGroups /\ [][NextDiscovery]_vars

\* The whole program, signals included: fewer requests, manifests that
\* declare "a", every kind of working directory, and copies and writes that
\* fail.
Requests ==
  {<<>>, << <<"a">> >>, << <<"a", "@">> \o V100 >>, << <<"a">>, <<"b">> >>,
   << <<"a", "@">> \o V100, <<"b", "@">> \o V100 >>}

Init ==
  InitWith(Requests,
           {k \in WithB(ManifestKinds({V100}, {V100})) :
              Has(k.dependencies, "a")},
           {EmptyDir, LocalState({"a"}, {"a"}), LocalState({}, {"a"}),
            LocalState({"a"}, {})},
           {"npm", "yarn"},
           {{}, {<<"p1", "node_modules", "a">>}},
           BOOLEAN)

NextRun ==
  \/ NextDiscovery
  \/ ReadOwnManifest
  \/ EnsureDir
  \/ ReadPackageJson
  \/ PathExists
  \/ Remove
  \/ Copy
  \/ WriteJson
  \/ \E code \in {-1, 0, 1} : ChildClose(code)
  \/ ChildError
  \/ ProgramEnd

Next ==
  \/ NextRun
  \/ SigInt
  \/ SigTstp
  \/ TreeKillSend
  \/ TreeKillCallback

Spec == Init /\ [][Next]_vars

\* The whole program without signals, over manifests that declare "a" as
\* "^1.0.0", as "2.0.0", as "*" or as the range "1.0.0||^2.0.0", in an empty working
\* directory, in one with a node_modules/a that its manifest does not
\* record, or in one whose manifest records a: "1.0.0" without the directory.
Star == <<"*">>

RangeOr == V100 \o <<"|", "|">> \o Caret(V200)

InitStore ==
  InitWith(Requests,
           {k \in ManifestKinds({Caret(V100), RangeOr, V200, Star}, {}) :
              Has(k.dependencies, "a")},
           {EmptyDir, LocalState({}, {"a"}), LocalState({"a"}, {})},
           {"npm"}, {{}}, {FALSE})

\* The whole program without signals, run in an ordinary directory or
\* inside an installed package (p1/node_modules/a), over manifests in p1, p2
\* and in the working directory itself, which declare "a" as a regular or as
\* a dev dependency.  The manifest of the working directory is the local
\* manifest, and its sibling node_modules is the local one.
ContainKinds ==
  {[readable |-> TRUE, dependencies |-> d, devDependencies |-> v,
    peerDependencies |-> <<>>, installed |-> s] :
      d \in {<<>>, << <<"a", V100>> >>},
      v \in {<<>>, << <<"a", V100>> >>},
      s \in {{}, {"a"}}}

InitContain ==
  /\ cwd \in {<<"w">>, <<"p1", "node_modules", "a">>}
  /\ rootDir = <<>>
  /\ \E ks \in [1..NumManifests -> ContainKinds],
        ps \in PosArrangements,
        ds \in [1..NumManifests -> {<<"p1">>, <<"p2">>, <<"w">>}] :
       /\ \A i, j \in 1..NumManifests : ds[i] = ds[j] => i = j
       /\ \A i \in 1..NumManifests : Has(Dependencies(ks[i]), "a")
       /\ manifests = [i \in 1..NumManifests |->
                         MakeManifest(ks[i], ps[i], ds[i])]
  /\ InitRest({<<>>, << <<"a">> >>, << <<"a">>, <<"b">> >>},
              {LocalState({}, {}), LocalState({}, {"a"})},
              {"npm"}, {{}}, {FALSE})
  /\ \A i \in 1..NumManifests :
       /\ manifests[i].dir = cwd =>
            /\ manifests[i].dependencies = pkgDisk.dependencies
            /\ manifests[i].installed = {n \in Names : nm[n] # <<>>}
       /\ IsPrefix(manifests[i].dir \o <<"node_modules", "a">>, cwd) =>
            "a" \in manifests[i].installed

SpecContain == InitContain /\ [][NextRun]_vars

SpecStore == InitStore /\ [][NextRun]_vars

\* The whole program without signals and without positional arguments, in a
\* working directory with nothing installed whose manifest is missing or
\* records none, one or two dependencies, exact or with a range marker.
Tilde(v) == <<"~">> \o v

OwnMaps ==
  {<<>>,
   << <<"a", V100>> >>, << <<"a", Caret(V100)>> >>, << <<"a", Tilde(V100)>> >>,
   << <<"a", Caret(V100)>>, <<"b", V200>> >>,
   << <<"b", V100>>, <<"a", Tilde(V100)>> >>}

OwnLocals ==
  {[pkg |-> [exists |-> TRUE, hasDeps |-> TRUE, dependencies |-> d],
    nmDir |-> FALSE, nm |-> [n \in Names |-> <<>>]] : d \in OwnMaps}
    \cup {EmptyDir}

InitOwn ==
  InitWith({<<>>}, WithB(ManifestKinds({V100, Caret(V100)}, {V100})),
           OwnLocals, {"npm"}, {{}}, {FALSE})

SpecOwn == InitOwn /\ [][NextRun]_vars

\* The older variant of the discovery: requests for "a" and "b", with and
\* without a version, against manifests that declare "a" as "1.0.0" or as
\* "2.0.0" and "b" as "1.0.0", in an empty working directory or in one where
\* "a" is installed.
InitIndex ==
  /\ cwd = <<"w">>
  /\ rootDir = <<>>
  /\ \E ks \in [1..NumManifests ->
                  WithB(ManifestKinds({V100, V200}, {V100})) \cup {Unreadable}],
        ps \in PosArrangements :
       manifests = [i \in 1..NumManifests |->
                      MakeManifest(ks[i], ps[i], ManifestDirs[i])]
  /\ pc = "indexStart"
  /\ InitIdle(RequestLists(Ids), {EmptyDir, LocalState({"a"}, {"a"})},
              {"npm"}, {{}}, {FALSE})

NextIndex ==
  \/ IndexStart
  \/ IndexScanDone
  \/ \E m \in 1..NumManifests : IndexTaskRead(m)
  \/ \E m \in 1..NumManifests : IndexTaskExists(m)
  \/ \E m \in 1..NumManifests : IndexTaskAccess(m)
  \/ IndexBatchJoin

SpecIndex == InitIndex /\ [][NextIndex]_vars

\* Runs one after the other in the same working directory: no signals, and
\* every copy and every write of the manifest succeeds.
InitTwice ==
  InitWith(Requests,
           {k \in WithB(ManifestKinds({V100}, {V100})) :
              Has(k.dependencies, "a")},
           {EmptyDir, LocalState({"a"}, {"a"}), LocalState({}, {"a"}),
            LocalState({"a"}, {})},
           {"npm"}, {{}}, {FALSE})

NextTwice == NextRun \/ Rerun

SpecTwice == InitTwice /\ [][NextTwice]_vars

\* ------------------------------------------------------------ properties

\* getDependencyPaths has returned to the main flow.
Returned ==
  pc \in {"fallbackMain", "ensureDir", "readPackageJson", "pathExists",
          "remove", "copy", "writeJson", "fallbackRest", "ended"}

\* The version constraint of a requested name, <<>> when it has none.
Constraint(name) == Get(dependencySpecs, name)

\* The manifests whose declaration of `name` is backed by an install
\* directory: the usable candidates for the name.
Usable(name) ==
  {m \in 1..NumManifests :
     /\ Crawled(m)
     /\ manifests[m].readable
     /\ Get(Dependencies(manifests[m]), name) # <<>>
     /\ name \in manifests[m].installed}

Declared(m, name) == Get(Dependencies(manifests[m]), name)

AllMatches == Flat([m \in 1..NumManifests |-> task[m].matches])

\* C1: for a spec with a version constraint, a manifest's declaration that
\* the matching loop has examined is accepted iff the declared version is
\* token for token the constraint and the sibling node_modules/<name>
\* exists; every match and every returned result for a constrained spec
\* carries the constraint as its version.
C1_ExactVersionOnly ==
  /\ \A d \in decided :
       Constraint(d.name) # <<>> =>
         (d.accepted <=> /\ Declared(d.m, d.name) = Constraint(d.name)
                         /\ d.name \in manifests[d.m].installed)
  /\ \A i \in 1..Len(AllMatches) :
       Constraint(AllMatches[i].dependency) # <<>> =>
         AllMatches[i].version = Constraint(AllMatches[i].dependency)
  /\ \A i \in 1..Len(results) :
       Constraint(results[i].dependency) # <<>> =>
         results[i].version = Constraint(results[i].dependency)

\* "a@1.0.0" is requested; the first manifest declares a: 2.0.0 with its
\* directory installed and is passed over, the second declares a: 1.0.0 and
\* is the one returned.
C1_Witness ==
  /\ Returned
  /\ Constraint("a") = V100
  /\ Declared(1, "a") = V200 /\ "a" \in manifests[1].installed
  /\ [m |-> 1, name |-> "a", accepted |-> FALSE] \in decided
  /\ \E i \in 1..Len(results) :
       /\ results[i].dependency = "a"
       /\ results[i].version = V100
       /\ results[i].path = NodeModulesPath(manifests[2], "a")

\* The unconstrained names that are searched.
Unconstrained ==
  {toSearch[k][1] : k \in {h \in 1..Len(toSearch) : toSearch[h][2] = <<>>}}

Normalized(m, name) == StripMarker(Declared(m, name))

\* C2: an unconstrained spec with two or more usable candidates of
\* differing versions resolves to the candidate with the greatest normalized
\* version over all of them, whatever the positions of the manifests in the
\* list of paths.
C2_MaxOverAll ==
  Returned =>
    \A name \in Unconstrained :
      Cardinality({Normalized(m, name) : m \in Usable(name)}) >= 2 =>
        \E i \in 1..Len(results) :
          /\ results[i].dependency = name
          /\ \A m \in Usable(name) :
               SemverCompare(CleanOrSelf(Normalized(m, name)),
                             CleanOrSelf(results[i].version)) <= 0

\* C3: every searched spec that some readable manifest declares in a
\* matching version, with the install directory present, is in the resolved
\* set.
C3_FoundIsResolved ==
  Returned =>
    \A k \in 1..Len(toSearch) :
      (\E m \in Usable(toSearch[k][1]) :
         Matches(Dependencies(manifests[m]), toSearch[k]))
        => \E i \in 1..Len(results) : results[i].dependency = toSearch[k][1]

\* C4: the returned list holds at most one entry per dependency name.
C4_UniqueNames ==
  \A i, j \in 1..Len(results) :
    results[i].dependency = results[j].dependency => i = j

\* The requested names, and those the run found installed and recorded in
\* the working directory.
RequestedNames == {ParseSpec(depsToSearch[i])[1] : i \in 1..Len(depsToSearch)}

SatisfiedAtStart(name) ==
  /\ Get(atStart.pkg.dependencies, name) # <<>>
  /\ atStart.nm[name] # <<>>

\* The spawns of the package manager in the current run.
SpawnsOfRun == SelectSeq(spawnLog, LAMBDA s : s.run = run)

PassedToFallback(name) ==
  \E i \in 1..Len(SpawnsOfRun) :
    \E j \in 1..Len(SpawnsOfRun[i].pkgs) :
      ParseSpec(SpawnsOfRun[i].pkgs[j])[1] = name

\* C5: a requested dependency that the run found both recorded in the local
\* manifest and present under the local node_modules is neither copied nor
\* removed by the installer, and is in no argument list of the package
\* manager, on the zero-results path and on the remainder path.
C5_SatisfiedUntouched ==
  \A name \in RequestedNames :
    SatisfiedAtStart(name) =>
      /\ \A e \in fsLog :
           (e.run = run /\ e.name = name) => e.op \notin {"copy", "remove"}
      /\ ~PassedToFallback(name)

\* C6: a second run with the same request list, in the working directory the
\* first run left, copies nothing, removes nothing and does not change the
\* content of the local manifest.
C6_SecondRunIdle ==
  \A e \in fsLog :
    e.run >= 2 => e.op \notin {"copy", "remove", "rewritten"}

\* The requested identifiers, in request order, whose name is not the name
\* of a resolved dependency.
Remainder ==
  SelectSeq(depsToSearch,
            LAMBDA d : \A i \in 1..Len(results) :
                         results[i].dependency # ParseSpec(d)[1])

\* C7: with a non-empty resolved set the package manager is spawned at most
\* once, only after the installation, iff the remainder is non-empty, and
\* with exactly the remainder as its package arguments.
C7_RemainderOnce ==
  (Returned /\ results # <<>>) =>
    /\ Len(SpawnsOfRun) <= 1
    /\ \A i \in 1..Len(SpawnsOfRun) :
         /\ SpawnsOfRun[i].by = "rest"
         /\ SpawnsOfRun[i].pkgs = Remainder
    /\ pc \in {"fallbackRest", "ended"} =>
         (Len(SpawnsOfRun) = 1 <=> Remainder # <<>>)
    /\ pc \notin {"fallbackRest", "ended"} => Len(SpawnsOfRun) = 0

\* "a" and "b" are requested, only "a" is resolved, and the package manager
\* runs with "b" alone; or the same with "a@1.0.0" and "b@1.0.0".
C7_Witness ==
  /\ pc = "fallbackRest"
  /\ Len(argv) = 2
  /\ FoundDeps = {"a"}
  /\ SpawnsOfRun[1].pkgs = <<argv[2]>>
  /\ ParseSpec(argv[2])[1] = "b"

\* C8: when discovery returns nothing the package manager is spawned exactly
\* once, by the main flow, with the whole request list in order; the
\* installer never runs (no directory is made, nothing is copied, no
\* manifest is written), and the program exits as soon as the subprocess has
\* ended, whatever its outcome.
C8_ZeroResults ==
  (Returned /\ results = <<>>) =>
    /\ pc = "fallbackMain"
    /\ Len(SpawnsOfRun) = 1
    /\ SpawnsOfRun[1].by = "main"
    /\ SpawnsOfRun[1].pkgs = depsToSearch
    /\ argv # <<>> => SpawnsOfRun[1].pkgs = argv
    /\ \A e \in fsLog : e.run # run
    /\ child = "closed" => exited

\* Nothing is found for "a" and "b"; the package manager is given both and
\* fails, and the program exits with status 1 without touching the working
\* directory.
C8_Witness ==
  /\ Returned /\ results = <<>>
  /\ Len(argv) = 2
  /\ SpawnsOfRun = <<[by |-> "main", run |-> run, command |-> packageManager,
                      verb |-> InstallCommand(packageManager),
                      pkgs |-> argv]>>
  /\ closeCode = "failed"
  /\ exited /\ exitCode = 1
  /\ pkgDisk = atStart.pkg /\ nm = atStart.nm

\* C9: without a signal, the exit status is not 0 when the package manager
\* exited with a non-zero code or could not be spawned, on either path, and
\* when there is no argument and no readable local manifest; it is 0
\* otherwise.
C9_ExitStatus ==
  (exited /\ signals = 0) =>
    /\ closeCode \in {"failed", "error"} => exitCode # 0
    /\ (argv = <<>> /\ ~atStart.pkg.exists) => exitCode # 0
    /\ (closeCode \in {"none", "ok"} /\ ~(argv = <<>> /\ ~atStart.pkg.exists))
         => exitCode = 0

\* C10: once a signal has found a subprocess, the program does not exit
\* before a tree-kill callback has fired; a signal that finds no subprocess
\* exits the program at once with status 0.
C10_KillBeforeExit ==
  /\ (sigLive /\ exited) => killDone
  /\ sigLive => killsStarted > 0
  /\ (signals > 0 /\ ~sigLive) => (exited /\ exitCode = 0)

\* C11: once a signal has been delivered, the program's exit status is 0,
\* however the tree-kill callback, the subprocess's 'close' and 'error'
\* events and the main flow's handling of them are interleaved.
C11_SignalExitsClean ==
  (exited /\ signals > 0) => exitCode = 0

\* A fallback subprocess is live: spawned, and neither 'close' nor 'error'
\* has been reported.
SubprocessLive == child \in {"running", "killed"}

\* C12: while the program runs, packageManagerProcess refers to the last
\* spawned subprocess exactly as long as that subprocess is live, and is
\* null otherwise: a handler sees a handle iff a subprocess is live.
C12_HandleIffLive ==
  ~exited =>
    /\ packageManagerProcess # 0 <=> SubprocessLive
    /\ packageManagerProcess # 0 => packageManagerProcess = Len(spawnLog)

\* The remainder's subprocess has been live with its handle set, has
\* reported 'close', and the handle is null again while the program still
\* runs.
C12_Witness ==
  /\ ~exited
  /\ pc = "ended"
  /\ child = "closed"
  /\ closeCode \in {"ok", "failed", "killed"}
  /\ packageManagerProcess = 0
  /\ Len(SpawnsOfRun) = 1

\* A manifest directory in an excluded place: inside a node_modules nested
\* in another node_modules, below a dot-directory, or below a directory
\* named tmp, dist, build, coverage or test.
ExcludedPlace(dir) ==
  \/ Cardinality({i \in 1..Len(dir) : dir[i] = "node_modules"}) >= 2
  \/ \E i \in 1..Len(dir) :
       dir[i] \in {".git", ".cache", "tmp", "dist", "build", "coverage", "test"}

ExcludedManifests == {m \in 1..NumManifests : ExcludedPlace(manifests[m].dir)}

GroupVersions(m, name) ==
  SelectSeq(<<Get(manifests[m].dependencies, name),
              Get(manifests[m].devDependencies, name),
              Get(manifests[m].peerDependencies, name)>>,
            LAMBDA v : v # <<>>)

\* The versions under which manifest m has contributed the name: as a match
\* of a constrained spec or as a seen version of an unconstrained one.
Contributed(m, name) ==
  {AllMatches[i].version :
     i \in {h \in 1..Len(AllMatches) :
              /\ AllMatches[h].dependency = name
              /\ AllMatches[h].path = NodeModulesPath(manifests[m], name)}}
  \cup
  {Get(seenDeps, name)[k].version :
     k \in {h \in 1..Len(Get(seenDeps, name)) :
              Get(seenDeps, name)[h].path = NodeModulesPath(manifests[m], name)}}

\* Once a manifest has been read, the mapping used for matching gives every
\* name the version `pick` chooses among the versions of the groups, and the
\* manifest contributes the name under no other version.
MergeGives(pick(_)) ==
  \A m \in 1..NumManifests : \A name \in Names :
    (GroupVersions(m, name) # <<>> /\ task[m].st \in {"access", "done"}) =>
      /\ Get(Dependencies(manifests[m]), name) = pick(GroupVersions(m, name))
      /\ task[m].st = "done" =>
           Contributed(m, name) \subseteq
             {pick(GroupVersions(m, name)),
              StripMarker(pick(GroupVersions(m, name)))}

FirstVersion(vs) == vs[1]

LastVersion(vs) == vs[Len(vs)]

StripLeading(v) == IF StartsWithMarker(v) THEN Tail(v) ELSE v

\* The manifests whose sibling node_modules/<name> is the path of result i.
SourcesOf(i) ==
  {m \in 1..NumManifests :
     results[i].path = NodeModulesPath(manifests[m], results[i].dependency)}

\* C15: the version of a result for an unconstrained spec is the declared
\* version of its source with the leading range marker removed and nothing
\* else changed, and that is the version the installer writes into the
\* local manifest.
C15_LeadingMarkerOnly ==
  Returned =>
    \A i \in 1..Len(results) :
      Constraint(results[i].dependency) = <<>> =>
        \A m \in SourcesOf(i) :
          /\ results[i].version = StripLeading(Declared(m, results[i].dependency))
          /\ (pc \in {"fallbackRest", "ended"} /\ Len(results) = 1) =>
               Get(pkgDisk.dependencies, results[i].dependency)
                 = StripLeading(Declared(m, results[i].dependency))

\* The installer has finished with result i.
Processed(i) ==
  \/ pc \in {"writeJson", "fallbackRest", "ended"}
  \/ pc \in {"pathExists", "remove", "copy"} /\ i < di

\* Result i is the first result of its name: no earlier round of the loop
\* has installed the name.
FirstOfName(i) ==
  \A h \in 1..(i - 1) : results[h].dependency # results[i].dependency

\* C16: once the installer has processed a resolved dependency that it did
\* not skip as already installed and whose source passes the containment
\* check, node_modules/<name> is a copy of the source and the local manifest
\* object records name -> resolved version; a target that was on disk
\* without being recorded has been replaced by the copy.
C16_CopiedAndRecorded ==
  Returned =>
    \A i \in 1..Len(results) :
      (/\ Processed(i)
       /\ FirstOfName(i)
       /\ SourceOutside(TargetPath(results[i].dependency), results[i].path))
        => /\ nm[results[i].dependency] = results[i].path
           /\ Get(packageJson.dependencies, results[i].dependency)
                = results[i].version

\* The target equals the source, lies below it, or the source lies below
\* the target.
Contained(target, source) == IsPrefix(source, target) \/ IsPrefix(target, source)

ContainedResult(i) ==
  Contained(TargetPath(results[i].dependency), results[i].path)

\* C17: the installer never reaches the removal or the copy for a result
\* whose target and source are equal or one inside the other; a name with
\* only such results keeps its target directory as it was and is not
\* recorded in the local manifest object.
C17_NoSelfCopy ==
  /\ pc \in {"remove", "copy"} => ~ContainedResult(di)
  /\ pc \in {"pathExists", "remove", "copy", "writeJson", "fallbackRest",
             "ended"} =>
       \A i \in 1..Len(results) :
         (\A h \in 1..Len(results) :
            results[h].dependency = results[i].dependency => ContainedResult(h))
           => /\ nm[results[i].dependency] = atStart.nm[results[i].dependency]
              /\ Get(packageJson.dependencies, results[i].dependency)
                   = Get(atStart.pkg.dependencies, results[i].dependency)

\* The names the installer has copied in this run: the copy has completed
\* and node_modules/<name> is the copy of the source.
CopiedNames ==
  {results[i].dependency :
     i \in {h \in 1..Len(results) :
              /\ Processed(h)
              /\ [op |-> "copy", name |-> results[h].dependency, run |-> run]
                   \in fsLog
              /\ nm[results[h].dependency] = results[h].path}}

\* C18: when the program has exited after a signal, every dependency that
\* had been copied is still under the local node_modules and is recorded in
\* the local manifest on disk.
C18_CopiedSurvivesSignal ==
  (exited /\ signals > 0) =>
    \A name \in CopiedNames :
      /\ nm[name] # <<>>
      /\ Get(pkgDisk.dependencies, name) # <<>>

\* The places in a candidate list that hold a greatest version.
Greatest(list) ==
  {k \in 1..Len(list) :
     \A h \in 1..Len(list) : CompareCandidates(list[h], list[k]) <= 0}

\* Every unconstrained name whose candidate list holds a greatest version
\* from several source directories is returned once, from the directory at
\* the place `pick` chooses among the places of the greatest version.
TieGoesTo(pick(_)) ==
  Returned =>
    \A j \in 1..Len(seenDeps) :
      LET name == seenDeps[j][1]
          list == seenDeps[j][2]
      IN  Cardinality({list[k].path : k \in Greatest(list)}) >= 2 =>
            /\ \E i \in 1..Len(results) : results[i].dependency = name
            /\ \A i \in 1..Len(results) :
                 results[i].dependency = name =>
                   results[i].path = list[pick(Greatest(list))].path

FirstPlace(ks) == CHOOSE k \in ks : \A h \in ks : k <= h

LastPlace(ks) == CHOOSE k \in ks : \A h \in ks : h <= k

\* C19 (as stated): among candidates of an unconstrained spec with the same
\* greatest normalized version and different source directories, the one
\* appended to the candidate list first is returned.
C19_TieFirstFound == TieGoesTo(FirstPlace)

\* C19 (amended): among candidates of an unconstrained spec with the same
\* greatest normalized version and different source directories, the one
\* appended to the candidate list last is returned.
C19_TieLastFound == TieGoesTo(LastPlace)

\* "a" is requested; both manifests declare it with the normalized version
\* 1.0.0 and are in one batch; the second one's directory was appended first
\* and the first one's, appended last, is returned.
C19_Witness ==
  /\ Returned
  /\ Len(Get(seenDeps, "a")) = 2
  /\ Get(seenDeps, "a")[1].version = Get(seenDeps, "a")[2].version
  /\ Get(seenDeps, "a")[1].path = NodeModulesPath(manifests[2], "a")
  /\ Get(seenDeps, "a")[2].path = NodeModulesPath(manifests[1], "a")
  /\ Len(results) = 1
  /\ results[1].path = NodeModulesPath(manifests[1], "a")

\* A readable, crawled manifest that declares `name` while the sibling
\* node_modules/<name> is not on disk.
MissingDir(m, name) ==
  /\ Crawled(m) /\ manifests[m].readable
  /\ Has(Dependencies(manifests[m]), name)
  /\ name \notin manifests[m].installed

\* The access check of task m for `name` succeeded.
Observed(m, name) ==
  /\ name \in manifests[m].installed
  /\ [m |-> m, name |-> name, accepted |-> TRUE] \in decided

\* C20: every entry of the resolved set has the path node_modules/<name>
\* next to a crawled manifest, a directory that is on disk and that the
\* access check of the matching loop found; a manifest that declares a
\* requested name while its sibling directory is missing contributes no
\* match, no candidate and no result, and its task prints no warning.
C20_AccessChecked ==
  /\ \A i \in 1..Len(results) :
       \E m \in 1..NumManifests :
         /\ Crawled(m)
         /\ results[i].path = NodeModulesPath(manifests[m], results[i].dependency)
         /\ Observed(m, results[i].dependency)
  /\ \A m \in 1..NumManifests, name \in {"a", "b"} :
       MissingDir(m, name) =>
         /\ Contributed(m, name) = {}
         /\ ~task[m].warned
         /\ \A i \in 1..Len(results) :
              results[i].dependency = name =>
                results[i].path # NodeModulesPath(manifests[m], name)

\* The access check of one manifest failed, the task went on silently, and
\* the result came from the other manifest.
C20_Witness ==
  /\ Returned
  /\ \E m, h \in 1..NumManifests :
       /\ MissingDir(m, "a")
       /\ [m |-> m, name |-> "a", accepted |-> FALSE] \in decided
       /\ task[m].st = "done" /\ ~task[m].warned
       /\ Observed(h, "a")
       /\ Len(results) = 1
       /\ results[1].path = NodeModulesPath(manifests[h], "a")

\* A crawled manifest that cannot be read or parsed.
FailingManifest(m) == Crawled(m) /\ ~manifests[m].readable

\* The place manifest m would have in the list of paths if the failing
\* manifests listed before it were not on disk, and its batch.
PosIfAbsent(m) ==
  manifests[m].pos
    - Cardinality({f \in 1..NumManifests :
                     FailingManifest(f) /\ manifests[f].pos < manifests[m].pos})

BatchIfAbsent(m) == PosIfAbsent(m) \div batchSize

\* Manifest m yields a match or a candidate when its task runs.
Hits(m) ==
  /\ Crawled(m) /\ manifests[m].readable
  /\ \E k \in 1..Len(toSearch) :
       /\ Matches(Dependencies(manifests[m]), toSearch[k])
       /\ AccessOk(manifests[m], toSearch[k][1])

\* The manifests that gave a match or a candidate in this run, and those
\* that would have without the failing manifests: the hits of the first
\* batch that has one.
Contributors == {d.m : d \in {e \in decided : e.accepted}}

ContributorsIfAbsent ==
  {m \in 1..NumManifests :
     /\ Hits(m)
     /\ \A h \in 1..NumManifests :
          Hits(h) => BatchIfAbsent(m) <= BatchIfAbsent(h)}

\* The results for `name` whose copy does not fail and is not refused.
SoundResults(name) ==
  {i \in 1..Len(results) :
     /\ results[i].dependency = name
     /\ results[i].path \notin copyFails
     /\ SourceOutside(TargetPath(name), results[i].path)}

\* What node_modules/<name> holds after the loop of the installer when the
\* results whose copy fails are left out: what the run found there, or else
\* the copy of the first remaining result.
InstalledIfAbsent(name) ==
  IF atStart.nm[name] # <<>> THEN atStart.nm[name]
  ELSE results[CHOOSE i \in SoundResults(name) :
                 \A h \in SoundResults(name) : i <= h].path

\* C21: a manifest that cannot be read and a copy that fails do not abort
\* the pass, and the candidates and the installations obtained from the
\* other manifests and the other resolved dependencies are those the run
\* would obtain if the failing item were not there.
C21_FailureIsolated ==
  /\ Returned => Contributors = ContributorsIfAbsent
  /\ pc \in {"writeJson", "fallbackRest"} =>
       \A name \in FoundDeps :
         SoundResults(name) # {} => nm[name] = InstalledIfAbsent(name)

\* The installer refuses result i: it is not skipped as installed and its
\* source fails the containment check.
Refused(i) ==
  /\ ~AlreadyInstalled(results[i])
  /\ ~SourceOutside(TargetPath(results[i].dependency), results[i].path)

\* The copy of result i throws.
CopyThrows(i) ==
  \/ results[i].path \in copyFails
  \/ IsPrefix(results[i].path, TargetPath(results[i].dependency))

\* The loop of the installer has left the round of result `di`.
RoundEnds == ~exited /\ <<pc, di>>' # <<pc, di>>

\* `name` is among the packages of a remainder spawn of this run.
PassedAsRemainder(name) ==
  \E i \in 1..Len(SpawnsOfRun) :
    /\ SpawnsOfRun[i].by = "rest"
    /\ \E j \in 1..Len(SpawnsOfRun[i].pkgs) :
         ParseSpec(SpawnsOfRun[i].pkgs[j])[1] = name

DroppedStep ==
  /\ (pc = "pathExists" /\ RoundEnds /\ Refused(di)) =>
       /\ packageJson' = packageJson
       /\ nm' = nm
       /\ pc' \notin {"remove", "copy"}
       /\ (di' = di + 1 \/ pc' = "writeJson")
  /\ (pc = "copy" /\ RoundEnds /\ CopyThrows(di)) =>
       /\ packageJson' = packageJson
       /\ (di' = di + 1 \/ pc' = "writeJson")
  /\ run' = run => di' >= di
  /\ \A i \in 1..Len(results') : ~PassedAsRemainder(results[i].dependency)'

\* C22: the round of the installer that refuses a resolved dependency, or
\* whose copy throws, leaves the local manifest object as it was and goes
\* on to the next round or to the write of the manifest; no round is run
\* again; and no resolved name is among the packages of the remainder
\* spawn.
C22_FailedIsDropped == [][DroppedStep]_vars

\* A refused dependency has been passed over, unrecorded and untouched, and
\* the remainder has been handed to the package manager without it.
C22_Witness ==
  /\ pc = "fallbackRest"
  /\ \E i \in 1..Len(results) :
       /\ ~SourceOutside(TargetPath(results[i].dependency), results[i].path)
       /\ Get(packageJson.dependencies, results[i].dependency) = <<>>
       /\ nm[results[i].dependency] = atStart.nm[results[i].dependency]
       /\ ~PassedAsRemainder(results[i].dependency)

\* fs.writeJson of the local manifest has been called in this run.
WrittenThisRun == [op |-> "writeJson", name |-> "", run |-> run] \in fsLog

\* The program itself has written nothing in the working directory in this
\* run.
NothingWritten ==
  /\ \A e \in fsLog : e.run # run
  /\ pkgDisk = atStart.pkg /\ nm = atStart.nm

InstallerLoop == pc \in {"pathExists", "remove", "copy"}

AfterLoop == pc \in {"writeJson", "fallbackRest", "ended"}

StageOrder ==
  /\ ~Returned => NothingWritten
  /\ InstallerLoop => di \in 1..Len(results)
  /\ \A e \in fsLog :
       (e.run = run /\ e.op \in {"remove", "copy"}) =>
         \E i \in 1..Len(results) :
           /\ results[i].dependency = e.name
           /\ IF InstallerLoop THEN i <= di ELSE AfterLoop
  /\ AfterLoop => di = Len(results) /\ Len(results) > 0
  /\ WrittenThisRun <=> pc \in {"fallbackRest", "ended"}
  /\ \A i \in 1..Len(SpawnsOfRun) :
       SpawnsOfRun[i].by = "rest" => WrittenThisRun

StageStep ==
  /\ StageOrder'
  /\ run' = run =>
       /\ di' \in {di, di + 1} \/ di = 0
       /\ (InstallerLoop /\ nm' # nm) =>
            /\ pc \in {"remove", "copy"}
            /\ \A n \in Names : n # results[di].dependency => nm'[n] = nm[n]
       /\ (pkgDisk' # pkgDisk /\ child' = child) =>
            /\ pc = "writeJson" /\ ~WrittenThisRun /\ WrittenThisRun'
            /\ pkgDisk' = packageJson
       /\ WrittenThisRun => (WrittenThisRun' /\ pc' # "writeJson")

\* C23: within one run nothing is written in the working directory before
\* getDependencyPaths has returned; the installer removes and copies for one
\* result at a time, in the order of the results; the local manifest is
\* written once, by the step that follows the round of the last result, and
\* never again; and the remainder is spawned only after that write has been
\* attempted.
C23_StageOrder == [][StageStep]_vars

\* Two results have been installed in turn, the manifest has been written
\* and the package manager runs for the remainder.
C23_Witness ==
  /\ pc = "fallbackRest" /\ WrittenThisRun
  /\ Len(results) = 2 /\ di = 2
  /\ [op |-> "copy", name |-> results[1].dependency, run |-> run] \in fsLog
  /\ pkgDisk = packageJson
  /\ Len(SpawnsOfRun) = 1 /\ SpawnsOfRun[1].by = "rest"

\* The dependencies map `after` keeps every entry of `before`, and what it
\* adds are resolved names.
OnlyAppended(before, after) ==
  /\ \A j \in 1..Len(before) : Get(after, before[j][1]) = before[j][2]
  /\ (Keys(after) \ Keys(before)) \subseteq FoundDeps

\* C24: the installer only appends to the local manifest: every entry the
\* dependencies map had when the run started is still there with the same
\* version, in the manifest object of the installer and in the file it
\* writes, and the entries that were added are those of resolved names.
C24_OnlyAppends ==
  /\ (InstallerLoop \/ pc \in {"writeJson", "fallbackRest"}) =>
       OnlyAppended(atStart.pkg.dependencies, packageJson.dependencies)
  /\ (WrittenThisRun /\ closeCode # "ok") =>
       OnlyAppended(atStart.pkg.dependencies, pkgDisk.dependencies)

\* Every task of the current batch has completed: the coordinating flow is
\* between two batches.
BetweenBatches ==
  /\ pc = "batch"
  /\ \A m \in 1..NumManifests : InBatch(m, batchStart) => task[m].st = "done"

\* The tasks that are suspended at an await.
InFlight == {m \in 1..NumManifests : task[m].st \in {"read", "access"}}

\* C25: the candidate accumulator seenDeps changes only in a step of the
\* coordinating flow taken between two batches, when no task of the batch
\* is in flight; no step of a task changes it.
C25_MergedBetweenBatches ==
  [][(seenDeps' # seenDeps /\ run' = run) =>
       (BetweenBatches /\ InFlight = {})]_vars

\* The task of manifest m has been started: its manifest is being read or
\* has been read.
Started(m) == task[m].st # "idle"

\* C26: while the manifests are analysed, the tasks in flight are tasks of
\* the current batch, a window of batchSize consecutive places of the list
\* of paths that starts at a multiple of batchSize; no task of a later batch
\* has been started and none of its declarations has been checked; and
\* every task of an earlier batch has completed.
C26_BatchesInTurn ==
  pc = "batch" =>
    /\ batchStart % batchSize = 0
    /\ \A m \in 1..NumManifests :
         /\ task[m].st \in {"read", "access"} =>
              /\ manifests[m].pos >= batchStart
              /\ manifests[m].pos < batchStart + batchSize
         /\ manifests[m].pos >= batchStart + batchSize =>
              /\ ~Started(m)
              /\ \A d \in decided : d.m # m
         /\ (Started(m) /\ manifests[m].pos < batchStart) =>
              task[m].st = "done"

\* The second batch is under way: the task of the manifest at its first
\* place is in flight after the task of the first batch has completed.
C26_Witness ==
  /\ pc = "batch" /\ batchStart = batchSize
  /\ task[1].st = "done" /\ manifests[1].pos < batchSize
  /\ task[2].st = "access" /\ manifests[2].pos = batchSize
  /\ \E d \in decided : d.m = 1

\* The identifier the main flow requests for one entry of its own manifest.
RequestFor(entry) ==
  IF entry[2] # <<>> /\ entry[2][1] \in {"^", "~"}
  THEN <<entry[1]>>
  ELSE <<entry[1], "@">> \o entry[2]

\* C27: with no positional argument and a local manifest, the requests are
\* the entries of its dependencies map, in map order: the bare name, without
\* a constraint, for a version that starts with ^ or ~, and name@version
\* with the version as it is for every other; with an empty map the program
\* exits with status 0 and has scanned nothing, written nothing and spawned
\* nothing.
C27_OwnRequests ==
  (argv = <<>> /\ atStart.pkg.exists /\ pc # "start") =>
    LET own == atStart.pkg.dependencies
    IN  IF own = <<>>
        THEN /\ pc = "readOwn"
             /\ exited => exitCode = 0
             /\ NothingWritten /\ spawnLog = <<>> /\ decided = {}
             /\ \A m \in 1..NumManifests : ~Started(m)
        ELSE pc # "readOwn" =>
               /\ Len(depsToSearch) = Len(own)
               /\ \A i \in 1..Len(own) :
                    /\ depsToSearch[i] = RequestFor(own[i])
                    /\ Constraint(own[i][1])
                         = (IF own[i][2][1] \in {"^", "~"} THEN <<>>
                            ELSE own[i][2])

\* The manifest records a: "^1.0.0" and b: "2.0.0": a is requested bare and
\* b with its version.
C27_Witness ==
  /\ argv = <<>> /\ pc = "filter"
  /\ atStart.pkg.dependencies = << <<"a", Caret(V100)>>, <<"b", V200>> >>
  /\ depsToSearch = << <<"a">>, <<"b", "@">> \o V200 >>

\* The results for `name`.
ResultsFor(name) == {i \in 1..Len(results) : results[i].dependency = name}

\* C28: the sort and the pick over the candidates of an unconstrained spec
\* complete whatever the version strings are: the run never ends with an
\* error that left getDependencyPaths, and when the function has returned,
\* every name with candidates has exactly one result, one of its candidates.
C28_ResolutionTotal ==
  /\ pc # "crashed"
  /\ Returned =>
       \A j \in 1..Len(seenDeps) :
         seenDeps[j][2] # <<>> =>
           /\ Cardinality(ResultsFor(seenDeps[j][1])) = 1
           /\ \A i \in ResultsFor(seenDeps[j][1]) :
                \E k \in 1..Len(seenDeps[j][2]) :
                  /\ results[i].path = seenDeps[j][2][k].path
                  /\ results[i].version = seenDeps[j][2][k].version

\* The matches the tasks have pushed and the results that were returned, in
\* the variant of src/src/index.js.
IndexMatches == results \o FlatResults(batchStart)

\* C29: in the variant that de-duplicates by name@version, no two entries
\* of the result list, and no two matches pushed by the tasks, have the same
\* dependency name and the same declared version, whatever the interleaving
\* of the tasks of a batch.
C29_OnePerNameVersion ==
  pc \in {"indexBatch", "indexReturned"} =>
    LET all == IF pc = "indexReturned" THEN results ELSE IndexMatches
    IN  \A i, j \in 1..Len(all) :
          (all[i].dependency = all[j].dependency
             /\ all[i].version = all[j].version) => i = j

====
